---- MODULE Spec2Model ----
(***************************************************************************)
(* MediReach appointment lifecycle.                                        *)
(*                                                                         *)
(* Two alternative deployments of the same data model are covered:         *)
(*   backend = "rest" : the document-store REST API                        *)
(*                      (mongodb-implementation/routes, mongoose models);  *)
(*   backend = "sql"  : the relational schema with row-level security      *)
(*                      (the migration embedded in src/lib/supabase.ts).   *)
(* A behaviour runs against one backend, chosen in Init.  Every action is  *)
(* one complete request: the handler (or SQL statement with its policies,  *)
(* constraints and triggers) from the request to the response.  req is the *)
(* request just served and res its response.                               *)
(*                                                                         *)
(* Spec and SpecRating serve one request at a time and the stores do not   *)
(* fail.  SpecRace runs two requests concurrently, one step per await of   *)
(* the handler (per statement of the transaction), and lets the            *)
(* notification write fail; procs holds what each request has in hand.     *)
(***************************************************************************)
EXTENDS Integers, Sequences, FiniteSets

VARIABLES
    backend,        \* "rest" | "sql"
    appointments,   \* sequence of [patientId, doctorId, status]; _id = index
    notifications,  \* sequence of [userId, title, status, type, relatedId]
    reviews,        \* set of [appointment_id, patient_id, doctor_id, rating]
    doctorProfiles, \* profile _id -> [userId, rating, totalConsultations,
                    \*                 isVerified]
    req,            \* the request just served
    res,            \* its response: [code, rows]
    procs,          \* requests in flight, for the step-by-step handlers
    users           \* sequence of [email, passwordHash, fullName, role];
                    \* _id = index

vars == <<backend, appointments, notifications, reviews, doctorProfiles,
          req, res, procs, users>>

store == <<appointments, notifications, reviews, doctorProfiles>>

-----------------------------------------------------------------------------
(* Bounds *)

MaxAppts == 1
MaxNotifs == 3
MaxReviews == 4
MaxUsers == 2

-----------------------------------------------------------------------------
(* Users, roles and doctor profiles *)

Users == {"p1", "p2", "d1", "d2", "d3", "a1"}

Role(u) ==
    CASE u \in {"p1", "p2"} -> "patient"
      [] u \in {"d1", "d2", "d3"} -> "doctor"
      [] OTHER -> "admin"

\* The stored hash of a password (the User model hashes passwordHash
\* before it is stored).
hash(pw) == <<"bcrypt", pw>>

\* The accounts of Users, as registered before the appointments are used.
UserList == <<"p1", "p2", "d1", "d2", "d3", "a1">>

RegisteredUsers ==
    [i \in 1..Len(UserList) |->
        [email |-> UserList[i], passwordHash |-> hash("pw"),
         fullName |-> UserList[i], role |-> Role(UserList[i])]]

\* d1 and d2 have completed the doctor profile setup, d3 has not.
DoctorProfileIds == {"dp1", "dp2"}

\* "dpX" is a well-formed id that names no doctor profile; "" is an absent field.
DoctorIdInputs == DoctorProfileIds \cup {"dpX", ""}

\* A rating is a number n/d, kept as a fraction in lowest terms: the
\* document store keeps the quotient of a division, the relational store a
\* decimal(3,2).
RECURSIVE gcd(_, _)
gcd(a, b) == IF b = 0 THEN a ELSE gcd(b, a % b)

Rat(n, d) == [num |-> n \div gcd(n, d), den |-> d \div gcd(n, d)]

\* (n/d)::decimal(3,2) for n >= 0, d > 0: numeric rounding to two places,
\* half away from zero
Decimal2(n, d) == Rat((200 * n + d) \div (2 * d), 100)

InitDoctorProfiles ==
    [dp \in DoctorProfileIds |->
        [userId |-> IF dp = "dp1" THEN "d1" ELSE "d2",
         rating |-> Rat(0, 1),
         totalConsultations |-> 0,
         isVerified |-> FALSE]]

StatusEnum == {"pending", "confirmed", "completed", "cancelled", "rescheduled"}

\* Requested statuses tried by callers: the enum and one value outside it.
StatusInputs == StatusEnum \cup {"archived"}

\* Ids named by requests: the ids that can exist and one that never does.
IdInputs == 1..(MaxAppts + 1)

-----------------------------------------------------------------------------
(* Appointment model *)

canBeModified(appt) == appt.status \in {"pending", "confirmed"}

Digits == {"0", "1", "2", "3", "4", "5", "6", "7", "8", "9"}

\* /^([0-1]?[0-9]|2[0-3]):[0-5][0-9]$/ on a sequence of characters
matchTime(t) ==
    \/ /\ Len(t) = 5
       /\ \/ t[1] \in {"0", "1"} /\ t[2] \in Digits
          \/ t[1] = "2" /\ t[2] \in {"0", "1", "2", "3"}
       /\ t[3] = ":"
       /\ t[4] \in {"0", "1", "2", "3", "4", "5"}
       /\ t[5] \in Digits
    \/ /\ Len(t) = 4
       /\ t[1] \in Digits
       /\ t[2] = ":"
       /\ t[3] \in {"0", "1", "2", "3", "4", "5"}
       /\ t[4] \in Digits

\* Schema validation run by Appointment.create: required paths and the
\* appointmentTime pattern.  A doctorId is only required to be present.
validAppointment(body) ==
    /\ body.doctorId # ""
    /\ body.appointmentDate
    /\ body.appointmentTime # <<>>
    /\ matchTime(body.appointmentTime)
    /\ body.reason

NoBody == [doctorId |-> "", appointmentDate |-> FALSE,
           appointmentTime |-> <<>>, reason |-> FALSE]

GoodTime == <<"0", "9", ":", "3", "0">>
ShortTime == <<"9", ":", "0", "5">>
BadTime == <<"2", "5", ":", "0", "0">>

\* Request bodies tried by callers of POST /api/appointments.
Bodies ==
    {[doctorId |-> d, appointmentDate |-> TRUE,
      appointmentTime |-> GoodTime, reason |-> TRUE] : d \in DoctorIdInputs}
    \cup
    {[doctorId |-> "dp1", appointmentDate |-> TRUE,
      appointmentTime |-> t, reason |-> TRUE] : t \in {ShortTime, BadTime, <<>>}}
    \cup
    {[doctorId |-> "dp1", appointmentDate |-> dt,
      appointmentTime |-> GoodTime, reason |-> rs] :
        dt \in BOOLEAN, rs \in BOOLEAN}

-----------------------------------------------------------------------------
(* Requests and responses *)

Request(op, u, id, st, p, rt, body) ==
    [op |-> op, user |-> u, id |-> id, status |-> st,
     patient |-> p, rating |-> rt, body |-> body]

Response(code, rows) == [code |-> code, rows |-> rows]

\* DoctorProfile.findOne({ userId }) : the profile ids owned by user u
profilesOf(u) == {dp \in DOMAIN doctorProfiles : doctorProfiles[dp].userId = u}

\* No request is being served.
Idle == Request("none", "", 0, "", "", 0, NoBody)

\* The two concurrent requests of SpecRace.
Procs == {"A", "B"}

NoAppt == [patientId |-> "", doctorId |-> "", status |-> ""]

\* No Authorization header; no user in a response.
NoToken == [sig |-> "none", userId |-> 0]

NoUser == [email |-> "", passwordHash |-> <<>>, fullName |-> "", role |-> ""]

\* What a request in flight holds: its position pc, its inputs, the
\* appointment document it loaded (appt), the doctor profile it works on
\* and the rating that profile had when loaded, the reviews it read, its
\* response code, and when it saved (order: 0 = not yet, else the rank of
\* its save among the saves; wrote: the save sent an update).
IdleProc ==
    [pc |-> "idle", op |-> "none", user |-> "", id |-> 0, status |-> "",
     rating |-> 0, appt |-> NoAppt, profile |-> "", loaded |-> Rat(0, 1),
     read |-> {}, code |-> "none", order |-> 0, wrote |-> FALSE,
     email |-> "", password |-> "", fullName |-> "", role |-> "",
     auth |-> NoToken, msg |-> "", token |-> 0, out |-> NoUser,
     fault |-> FALSE]

Init ==
    /\ backend \in {"rest", "sql"}
    /\ appointments = <<>>
    /\ notifications = <<>>
    /\ reviews = {}
    /\ doctorProfiles = InitDoctorProfiles
    /\ req = Idle
    /\ res = Response("none", {})
    /\ procs = [p \in Procs |-> IdleProc]
    /\ users = RegisteredUsers

-----------------------------------------------------------------------------
(* REST: GET /api/appointments *)

\* Variant: the doctor branch forgets to put its filter into the query.
listQuery_doctorUnfiltered(u) ==
    IF Role(u) = "patient"
    THEN {i \in DOMAIN appointments : appointments[i].patientId = u}
    ELSE DOMAIN appointments

\* The ids Appointment.find(query) returns for caller u.
listQuery(u) ==
    IF Role(u) = "patient"
    THEN {i \in DOMAIN appointments : appointments[i].patientId = u}
    ELSE IF Role(u) = "doctor"
    THEN {i \in DOMAIN appointments : appointments[i].doctorId \in profilesOf(u)}
    ELSE DOMAIN appointments

ListAppointments(u) ==
    /\ backend = "rest"
    /\ req = Idle
    /\ req' = Request("list", u, 0, "", "", 0, NoBody)
    /\ res' = IF Role(u) = "doctor" /\ profilesOf(u) = {}
              THEN Response("404", {})
              ELSE Response("200", listQuery(u))
    /\ UNCHANGED <<users, backend, procs, store>>

-----------------------------------------------------------------------------
(* REST: POST /api/appointments *)

\* authorize('patient'), the role gate mounted before the handler
authorize(role, u) == Role(u) = role

requestNotification(doctorUser, id) ==
    [userId |-> doctorUser, title |-> "New Appointment Request",
     status |-> "", type |-> "appointment", relatedId |-> id]

CreateAppointment(u, body) ==
    /\ backend = "rest"
    /\ req = Idle
    /\ Len(appointments) < MaxAppts
    /\ Len(notifications) < MaxNotifs
    /\ req' = Request("create", u, 0, "", "", 0, body)
    /\ IF ~authorize("patient", u)
       THEN /\ res' = Response("403", {})
            /\ UNCHANGED store
       ELSE IF ~validAppointment(body)
       THEN \* Appointment.create rejects: the catch block answers 500
            /\ res' = Response("500", {})
            /\ UNCHANGED store
       ELSE LET id == Len(appointments) + 1 IN
            /\ appointments' = Append(appointments,
                   [patientId |-> u, doctorId |-> body.doctorId,
                    status |-> "pending"])
            /\ notifications' =
                   IF body.doctorId \in DOMAIN doctorProfiles
                   THEN Append(notifications,
                            requestNotification(
                                doctorProfiles[body.doctorId].userId, id))
                   ELSE notifications
            /\ res' = Response("201", {id})
            /\ UNCHANGED <<reviews, doctorProfiles>>
    /\ UNCHANGED <<users, backend, procs>>

\* Callers and bodies tried: every body by a patient, one good body by the rest.
CreateInputs ==
    {<<u, b>> \in Users \X Bodies :
        Role(u) = "patient" \/ (b.doctorId = "dp1" /\ validAppointment(b)
                                 /\ b.appointmentTime = GoodTime)}

-----------------------------------------------------------------------------
(* REST: PATCH /api/appointments/:id/status *)

\* Variant: the whitelist is the schema's whole enum.
validStatus_enum(st) == st \in StatusEnum

validStatus(st) == st \in {"confirmed", "cancelled", "completed", "rescheduled"}

\* Variant: any doctor with a profile passes.
doctorOwns_anyProfile(u, appt) == profilesOf(u) # {}

\* the doctor-role ownership test: the caller's profile exists and is the
\* one the appointment references
doctorOwns(u, appt) ==
    /\ profilesOf(u) # {}
    /\ appt.doctorId \in profilesOf(u)

\* Variant: the handler consults canBeModified() before writing.
statusCode_guarded(u, id, st) ==
    IF ~validStatus(st) THEN "400"
    ELSE IF id \notin DOMAIN appointments THEN "404"
    ELSE IF Role(u) = "doctor" /\ ~doctorOwns(u, appointments[id]) THEN "403"
    ELSE IF ~canBeModified(appointments[id]) THEN "400"
    ELSE "200"

\* Variant: the ownership test runs before the existence test.
statusCode_authFirst(u, id, st) ==
    IF ~validStatus(st) THEN "400"
    ELSE IF Role(u) = "doctor"
            /\ (id \notin DOMAIN appointments \/ ~doctorOwns(u, appointments[id]))
    THEN "403"
    ELSE IF id \notin DOMAIN appointments THEN "404"
    ELSE "200"

\* Variant: a patient-role caller must be the appointment's patient.
statusCode_patientOwns(u, id, st) ==
    IF ~validStatus(st) THEN "400"
    ELSE IF id \notin DOMAIN appointments THEN "404"
    ELSE IF Role(u) = "doctor" /\ ~doctorOwns(u, appointments[id]) THEN "403"
    ELSE IF Role(u) = "patient" /\ appointments[id].patientId # u THEN "403"
    ELSE "200"

\* The response status of the handler, in the order of its checks.
statusCode(u, id, st) ==
    IF ~validStatus(st) THEN "400"
    ELSE IF id \notin DOMAIN appointments THEN "404"
    ELSE IF Role(u) = "doctor" /\ ~doctorOwns(u, appointments[id]) THEN "403"
    ELSE "200"

\* Variant: the notification names the status the appointment had before.
statusNotification_oldStatus(appt, id, st) ==
    [userId |-> appt.patientId, title |-> "Appointment Status Updated",
     status |-> appt.status, type |-> "appointment", relatedId |-> id]

statusNotification(appt, id, st) ==
    [userId |-> appt.patientId, title |-> "Appointment Status Updated",
     status |-> st, type |-> "appointment", relatedId |-> id]

PatchStatus(u, id, st) ==
    /\ backend = "rest"
    /\ req = Idle
    /\ Len(notifications) < MaxNotifs
    /\ req' = Request("setStatus", u, id, st, "", 0, NoBody)
    /\ LET code == statusCode(u, id, st) IN
       IF code = "200"
       THEN /\ appointments' = [appointments EXCEPT ![id].status = st]
            /\ notifications' = Append(notifications,
                   statusNotification(appointments[id], id, st))
            /\ res' = Response(code, {id})
            /\ UNCHANGED <<reviews, doctorProfiles>>
       ELSE /\ res' = Response(code, {})
            /\ UNCHANGED store
    /\ UNCHANGED <<users, backend, procs>>

-----------------------------------------------------------------------------
(* Relational backend: statements run by an authenticated caller u, under   *)
(* the row-level security policies, constraints and triggers of the schema. *)
(* auth.uid() = u.  Outcomes: "ok", or the first failing check in the order *)
(* the database applies them: "rls" (policy WITH CHECK), "check" (CHECK    *)
(* constraint), "unique", "fk".                                             *)

\* doctor_id IN (SELECT id FROM doctor_profiles WHERE user_id = auth.uid())
ownAppointment(u, appt) ==
    \/ appt.patientId = u
    \/ appt.doctorId \in profilesOf(u)

\* SELECT id FROM appointments, under "Patients can view own appointments"
visibleAppointments(u) ==
    {i \in DOMAIN appointments : ownAppointment(u, appointments[i])}

SqlSelectAppointments(u) ==
    /\ backend = "sql"
    /\ req = Idle
    /\ req' = Request("select", u, 0, "", "", 0, NoBody)
    /\ res' = Response("ok", visibleAppointments(u))
    /\ UNCHANGED <<users, backend, procs, store>>

\* INSERT INTO appointments (patient_id, doctor_id, status, ...)
SqlInsertAppointment(u, p, d, st) ==
    /\ backend = "sql"
    /\ req = Idle
    /\ Len(appointments) < MaxAppts
    /\ req' = Request("insertAppointment", u, 0, st, p, 0,
                      [NoBody EXCEPT !.doctorId = d])
    /\ LET code == IF p # u THEN "rls"
                   ELSE IF st \notin StatusEnum THEN "check"
                   ELSE IF d \notin DOMAIN doctorProfiles THEN "fk"
                   ELSE "ok"
       IN
       IF code = "ok"
       THEN /\ appointments' = Append(appointments,
                   [patientId |-> p, doctorId |-> d, status |-> st])
            /\ res' = Response(code, {Len(appointments) + 1})
            /\ UNCHANGED <<notifications, reviews, doctorProfiles>>
       ELSE /\ res' = Response(code, {})
            /\ UNCHANGED store
    /\ UNCHANGED <<users, backend, procs>>

\* UPDATE appointments SET status = st WHERE id = id
SqlUpdateAppointment(u, id, st) ==
    /\ backend = "sql"
    /\ req = Idle
    /\ req' = Request("updateAppointment", u, id, st, "", 0, NoBody)
    /\ IF id \notin visibleAppointments(u)
       THEN \* USING filters the row out: the statement updates nothing
            /\ res' = Response("ok", {})
            /\ UNCHANGED store
       ELSE IF st \notin StatusEnum
       THEN /\ res' = Response("check", {})
            /\ UNCHANGED store
       ELSE /\ appointments' = [appointments EXCEPT ![id].status = st]
            /\ res' = Response("ok", {id})
            /\ UNCHANGED <<notifications, reviews, doctorProfiles>>
    /\ UNCHANGED <<users, backend, procs>>

\* ... FROM reviews WHERE doctor_id = d
reviewsFor(rs, d) == {r \in rs : r.doctor_id = d}

reviewsOf(d) == reviewsFor(reviews, d)

\* SELECT AVG(rating)::decimal(3,2) over a non-empty set of reviews
RECURSIVE sumRatings(_)
sumRatings(rs) ==
    IF rs = {} THEN 0
    ELSE LET r == CHOOSE x \in rs : TRUE IN r.rating + sumRatings(rs \ {r})

avgRating(rs) == Decimal2(sumRatings(rs), Cardinality(rs))

\* The AFTER INSERT trigger.  Its UPDATE runs as the inserting caller, so the
\* policy "Doctors can update own profile" (user_id = auth.uid()) decides
\* which doctor_profiles rows it can touch.
update_doctor_rating(u, d, rs) ==
    [dp \in DOMAIN doctorProfiles |->
        IF dp = d /\ doctorProfiles[dp].userId = u
        THEN [doctorProfiles[dp] EXCEPT
                 !.rating = avgRating(reviewsFor(rs, d))]
        ELSE doctorProfiles[dp]]

\* Variant: the policy forgets the status condition.
reviewAllowed_anyStatus(u, id, p) ==
    /\ p = u
    /\ id \in {i \in DOMAIN appointments : appointments[i].patientId = u}

\* WITH CHECK of "Patients can create reviews for own appointments"
reviewAllowed(u, id, p) ==
    /\ p = u
    /\ id \in {i \in DOMAIN appointments :
                  /\ appointments[i].patientId = u
                  /\ appointments[i].status = "completed"}

\* The outcome of the insert: the first check that fails, or "ok".
reviewCode(u, id, p, d, rt) ==
    IF ~reviewAllowed(u, id, p) THEN "rls"
    ELSE IF ~(rt >= 1 /\ rt <= 5) THEN "check"
    ELSE IF \E r \in reviews : r.appointment_id = id THEN "unique"
    ELSE IF d \notin DOMAIN doctorProfiles THEN "fk"
    ELSE "ok"

\* INSERT INTO reviews (appointment_id, patient_id, doctor_id, rating)
SqlInsertReview(u, id, p, d, rt) ==
    /\ backend = "sql"
    /\ req = Idle
    /\ req' = Request("insertReview", u, id, "", p, rt,
                      [NoBody EXCEPT !.doctorId = d])
    /\ LET code == reviewCode(u, id, p, d, rt)
           row == [appointment_id |-> id, patient_id |-> p,
                   doctor_id |-> d, rating |-> rt]
       IN
       IF code = "ok"
       THEN /\ reviews' = reviews \cup {row}
            /\ doctorProfiles' = update_doctor_rating(u, d, reviews \cup {row})
            /\ res' = Response(code, {id})
            /\ UNCHANGED <<appointments, notifications>>
       ELSE /\ res' = Response(code, {})
            /\ UNCHANGED store
    /\ UNCHANGED <<users, backend, procs>>

\* Callers and rows tried against the relational backend.
SqlUsers == {"p1", "p2", "d1"}
SqlBookers == {"p1", "d1"}
SqlPatientInputs(u) == {u, "p2"}
SqlDoctorInputs == {"dp1", "dp2", "dpX"}
SqlInsertStatusInputs == {"pending", "completed", "archived"}
SqlUpdateStatusInputs == {"confirmed", "completed", "cancelled", "archived"}
RatingInputs == {3, 5, 6}

\* Review rows <<patient_id, doctor_id, rating>> tried by caller u: every
\* acceptable rating for every existing doctor, and one row for each way a
\* row can be refused.
ReviewInputs(u) ==
    {<<u, d, rt>> : d \in DoctorProfileIds, rt \in {rt \in RatingInputs : rt <= 5}}
    \cup {<<u, "dpX", 3>>, <<u, "dp1", 6>>, <<"p2", "dp1", 3>>}

-----------------------------------------------------------------------------
(* Document store: reviews and the rating aggregator *)

\* Variant: with no stored review the profile keeps the rating it has.
updateRating_keepsRating(profile, newRating, rs) ==
    IF Cardinality(rs) = 0
    THEN profile
    ELSE [profile EXCEPT !.rating = Rat(sumRatings(rs), Cardinality(rs))]

\* Variant: the newly submitted value always becomes the rating.
updateRating_newestOnly(profile, newRating, rs) ==
    [profile EXCEPT !.rating = Rat(newRating, 1)]

\* doctorProfileSchema.methods.updateRating; profile is `this`, rs the result
\* of Review.find({ doctorId: this._id }); the value is the document saved
updateRating(profile, newRating, rs) ==
    IF Cardinality(rs) = 0
    THEN [profile EXCEPT !.rating = Rat(newRating, 1)]
    ELSE [profile EXCEPT !.rating = Rat(sumRatings(rs), Cardinality(rs))]

\* A Review document can be stored: one review per appointment, by the
\* appointment's patient, after completion, rating 1..5.
reviewAccepted(u, id, rt) ==
    /\ id \in DOMAIN appointments
    /\ appointments[id].patientId = u
    /\ appointments[id].status = "completed"
    /\ appointments[id].doctorId \in DOMAIN doctorProfiles
    /\ rt >= 1 /\ rt <= 5
    /\ ~\E r \in reviews : r.appointment_id = id

\* Review creation by patient u for appointment id: the review is stored,
\* then the doctor's profile recomputes its rating.
CreateReview(u, id, rt) ==
    /\ backend = "rest"
    /\ req = Idle
    /\ req' = Request("createReview", u, id, "", u, rt, NoBody)
    /\ IF reviewAccepted(u, id, rt)
       THEN LET d == appointments[id].doctorId
                row == [appointment_id |-> id, patient_id |-> u,
                        doctor_id |-> d, rating |-> rt]
            IN
            /\ reviews' = reviews \cup {row}
            /\ doctorProfiles' =
                   [doctorProfiles EXCEPT
                       ![d] = updateRating(@, rt, reviewsFor(reviews \cup {row}, d))]
            /\ res' = Response("201", {id})
            /\ UNCHANGED <<appointments, notifications>>
       ELSE /\ res' = Response("400", {})
            /\ UNCHANGED store
    /\ UNCHANGED <<users, backend, procs>>

\* profile.updateRating(newRating) called on the profile dp by itself
UpdateRating(dp, newRating) ==
    /\ backend = "rest"
    /\ req = Idle
    /\ req' = Request("updateRating", "", 0, "", "", newRating,
                      [NoBody EXCEPT !.doctorId = dp])
    /\ doctorProfiles' =
           [doctorProfiles EXCEPT ![dp] = updateRating(@, newRating, reviewsOf(dp))]
    /\ res' = Response("ok", {})
    /\ UNCHANGED <<users, backend, procs, appointments, notifications, reviews>>

-----------------------------------------------------------------------------
(* The response goes out and the request-response cycle ends; requests are  *)
(* served one at a time.                                                    *)

Deliver ==
    /\ req # Idle
    /\ req' = Idle
    /\ res' = Response("none", {})
    /\ UNCHANGED <<users, backend, procs, store>>

-----------------------------------------------------------------------------

Next ==
    \/ Deliver
    \/ \E u \in Users : ListAppointments(u)
    \/ \E ub \in CreateInputs : CreateAppointment(ub[1], ub[2])
    \/ \E u \in Users, id \in IdInputs, st \in StatusInputs : PatchStatus(u, id, st)
    \/ \E u \in SqlUsers : SqlSelectAppointments(u)
    \/ \E u \in SqlBookers, d \in SqlDoctorInputs, st \in SqlInsertStatusInputs :
          \E p \in SqlPatientInputs(u) : SqlInsertAppointment(u, p, d, st)
    \/ \E u \in SqlUsers, id \in IdInputs, st \in SqlUpdateStatusInputs :
          SqlUpdateAppointment(u, id, st)
    \/ \E u \in SqlUsers, id \in IdInputs :
          \E row \in ReviewInputs(u) : SqlInsertReview(u, id, row[1], row[2], row[3])

Spec == Init /\ [][Next]_vars

-----------------------------------------------------------------------------
(* Rating specification: doctor dp1 has MaxReviews completed appointments   *)
(* and their patients submit reviews one request at a time.                 *)

\* Patients of the completed appointments.  Only a patient-role user books
\* over REST; the relational insert policy lets any user book for themself.
RatingPatient(b, i) ==
    IF i % 2 = 1 THEN "p1" ELSE IF b = "rest" THEN "p2" ELSE "d1"

RatingAppointments(b) ==
    [i \in 1..MaxReviews |->
        [patientId |-> RatingPatient(b, i), doctorId |-> "dp1",
         status |-> "completed"]]

\* What the REST routes have written by then: for each appointment its
\* request notification and the notification of its completion.
RatingNotifications(b) ==
    IF b = "rest"
    THEN [k \in 1..(2 * MaxReviews) |->
             LET i == (k + 1) \div 2 IN
             IF k % 2 = 1
             THEN requestNotification("d1", i)
             ELSE statusNotification(RatingAppointments(b)[i], i, "completed")]
    ELSE <<>>

ReviewRatings == {3, 4, 5}

InitRating ==
    /\ backend \in {"rest", "sql"}
    /\ appointments = RatingAppointments(backend)
    /\ notifications = RatingNotifications(backend)
    /\ reviews = {}
    /\ doctorProfiles = InitDoctorProfiles
    /\ req = Idle
    /\ res = Response("none", {})
    /\ procs = [p \in Procs |-> IdleProc]
    /\ users = RegisteredUsers

NextRating ==
    \/ Deliver
    \/ \E u \in {"p1", "p2"}, id \in 1..MaxReviews, rt \in ReviewRatings :
          CreateReview(u, id, rt)
    \/ \E dp \in DoctorProfileIds, rt \in ReviewRatings : UpdateRating(dp, rt)
    \/ \E u \in {"p1", "d1"}, id \in 1..MaxReviews, rt \in ReviewRatings :
          SqlInsertReview(u, id, u, "dp1", rt)

SpecRating == InitRating /\ [][NextRating]_vars

-----------------------------------------------------------------------------
(* Doctor profile self-service on the relational backend: the statements a  *)
(* caller can run on doctor_profiles under its policies.  In a request, id  *)
(* names the row by body.doctorId, patient carries the row's user_id and    *)
(* status carries is_verified as "true" or "false".                         *)

\* gen_random_uuid(): the id the profile of user u gets
newProfileId(u) == IF u = "d3" THEN "dp3" ELSE "dp4"

\* INSERT INTO doctor_profiles (user_id, is_verified, ...)
SqlInsertDoctorProfile(u, owner, verified) ==
    /\ backend = "sql"
    /\ req = Idle
    /\ req' = Request("insertDoctorProfile", u, 0,
                      IF verified THEN "true" ELSE "false", owner, 0, NoBody)
    /\ LET code == IF owner # u THEN "rls"
                   ELSE IF profilesOf(owner) # {} THEN "unique"
                   ELSE "ok"
       IN
       IF code = "ok"
       THEN /\ doctorProfiles' =
                   [dp \in DOMAIN doctorProfiles \cup {newProfileId(u)} |->
                       IF dp \in DOMAIN doctorProfiles
                       THEN doctorProfiles[dp]
                       ELSE [userId |-> owner, rating |-> Rat(0, 1),
                             totalConsultations |-> 0, isVerified |-> verified]]
            /\ res' = Response(code, {})
            /\ UNCHANGED <<appointments, notifications, reviews>>
       ELSE /\ res' = Response(code, {})
            /\ UNCHANGED store
    /\ UNCHANGED <<users, backend, procs>>

\* UPDATE doctor_profiles SET is_verified = verified WHERE id = dp
SqlUpdateDoctorProfile(u, dp, verified) ==
    /\ backend = "sql"
    /\ req = Idle
    /\ req' = Request("updateDoctorProfile", u, 0,
                      IF verified THEN "true" ELSE "false", "", 0,
                      [NoBody EXCEPT !.doctorId = dp])
    /\ IF dp \in profilesOf(u)
       THEN /\ doctorProfiles' = [doctorProfiles EXCEPT ![dp].isVerified = verified]
            /\ res' = Response("ok", {})
            /\ UNCHANGED <<appointments, notifications, reviews>>
       ELSE \* USING filters the row out: the statement updates nothing
            /\ res' = Response("ok", {})
            /\ UNCHANGED store
    /\ UNCHANGED <<users, backend, procs>>

\* Callers of the doctor_profiles statements.
ProfileCallers == {"d1", "d3", "p1", "a1"}

InitProfile ==
    /\ backend = "sql"
    /\ appointments = <<>>
    /\ notifications = <<>>
    /\ reviews = {}
    /\ doctorProfiles = InitDoctorProfiles
    /\ req = Idle
    /\ res = Response("none", {})
    /\ procs = [p \in Procs |-> IdleProc]
    /\ users = RegisteredUsers

NextProfile ==
    \/ Deliver
    \/ \E u \in ProfileCallers, owner \in {"d1", "d3"}, v \in BOOLEAN :
          SqlInsertDoctorProfile(u, owner, v)
    \/ \E u \in ProfileCallers, dp \in {"dp1", "dp2", "dp3"}, v \in BOOLEAN :
          SqlUpdateDoctorProfile(u, dp, v)

SpecProfile == InitProfile /\ [][NextProfile]_vars

-----------------------------------------------------------------------------
(* Concurrent requests.  Each of the two requests of Procs runs one         *)
(* handler, one action per await; between two awaits of one request the     *)
(* other request may run.  The store is as in the rating specification:     *)
(* doctor dp1 with MaxReviews completed appointments.                       *)

setProc(p, new) == [procs EXCEPT ![p] = new]

\* The rank the next save gets among the saves made so far.
nextOrder == 1 + Cardinality({q \in Procs : procs[q].order > 0})

Finished == \A p \in Procs : procs[p].pc = "done"

\* Variant: the save is lost when the stored status is no longer the one
\* the request loaded.
saveStatus_versioned(doc, id, st) ==
    IF st # doc.status /\ appointments[id].status = doc.status
    THEN [appointments EXCEPT ![id].status = st]
    ELSE appointments

\* Variant: the assignment stays in memory, nothing is stored.
saveStatus_inMemory(doc, id, st) == appointments

\* appointment.status = status; await appointment.save()
\* doc is the document findById loaded.  save() sends the paths the
\* assignment modified: when the requested status is the one the document
\* was loaded with, no path is modified and nothing is sent.
saveStatus(doc, id, st) ==
    IF st # doc.status
    THEN [appointments EXCEPT ![id].status = st]
    ELSE appointments

\* PATCH /api/appointments/:id/status arrives: the whitelist test
PatchReceive(p, u, id, st) ==
    /\ backend = "rest"
    /\ procs[p].pc = "idle"
    /\ procs' = setProc(p,
           [procs[p] EXCEPT !.op = "setStatus", !.user = u, !.id = id,
                            !.status = st,
                            !.pc = IF validStatus(st) THEN "findById" ELSE "done",
                            !.code = IF validStatus(st) THEN "none" ELSE "400"])
    /\ UNCHANGED <<users, backend, store, req, res>>

\* await Appointment.findById(req.params.id)
PatchFindById(p) ==
    /\ procs[p].pc = "findById"
    /\ procs' = setProc(p,
           IF procs[p].id \notin DOMAIN appointments
           THEN [procs[p] EXCEPT !.pc = "done", !.code = "404"]
           ELSE [procs[p] EXCEPT
                    !.appt = appointments[procs[p].id],
                    !.pc = IF Role(procs[p].user) = "doctor"
                           THEN "findOne" ELSE "save"])
    /\ UNCHANGED <<users, backend, store, req, res>>

\* await DoctorProfile.findOne({ userId }) and the ownership test
PatchFindOne(p) ==
    /\ procs[p].pc = "findOne"
    /\ procs' = setProc(p,
           IF doctorOwns(procs[p].user, procs[p].appt)
           THEN [procs[p] EXCEPT !.pc = "save"]
           ELSE [procs[p] EXCEPT !.pc = "done", !.code = "403"])
    /\ UNCHANGED <<users, backend, store, req, res>>

PatchSave(p) ==
    /\ procs[p].pc = "save"
    /\ appointments' = saveStatus(procs[p].appt, procs[p].id, procs[p].status)
    /\ procs' = setProc(p,
           [procs[p] EXCEPT !.wrote = (procs[p].status # procs[p].appt.status),
                            !.appt = [@ EXCEPT !.status = procs[p].status],
                            !.order = nextOrder,
                            !.pc = "notify"])
    /\ UNCHANGED <<users, backend, notifications, reviews, doctorProfiles, req, res>>

\* await Notification.create(...) succeeds; res.json({ success: true })
PatchNotify(p) ==
    /\ procs[p].pc = "notify"
    /\ notifications' = Append(notifications,
           statusNotification(procs[p].appt, procs[p].id, procs[p].status))
    /\ procs' = setProc(p, [procs[p] EXCEPT !.pc = "done", !.code = "200"])
    /\ UNCHANGED <<users, backend, appointments, reviews, doctorProfiles, req, res>>

\* await Notification.create(...) throws: the catch block answers 500
PatchNotifyFails(p) ==
    /\ procs[p].pc = "notify"
    /\ procs' = setProc(p, [procs[p] EXCEPT !.pc = "done", !.code = "500"])
    /\ UNCHANGED <<users, backend, store, req, res>>

\* Document store, review creation: the review is stored and the doctor's
\* profile is loaded.
ReviewCreate(p, u, id, rt) ==
    /\ backend = "rest"
    /\ procs[p].pc = "idle"
    /\ IF reviewAccepted(u, id, rt)
       THEN LET d == appointments[id].doctorId IN
            /\ reviews' = reviews \cup
                   {[appointment_id |-> id, patient_id |-> u,
                     doctor_id |-> d, rating |-> rt]}
            /\ procs' = setProc(p,
                   [procs[p] EXCEPT !.op = "createReview", !.user = u,
                                    !.id = id, !.rating = rt, !.profile = d,
                                    !.loaded = doctorProfiles[d].rating,
                                    !.pc = "find"])
       ELSE /\ procs' = setProc(p,
                   [procs[p] EXCEPT !.op = "createReview", !.user = u,
                                    !.id = id, !.rating = rt,
                                    !.pc = "done", !.code = "400"])
            /\ UNCHANGED reviews
    /\ UNCHANGED <<users, backend, appointments, notifications, doctorProfiles, req, res>>

\* updateRating: const reviews = await Review.find({ doctorId: this._id })
ReviewFind(p) ==
    /\ procs[p].pc = "find"
    /\ procs' = setProc(p,
           [procs[p] EXCEPT !.read = reviewsOf(procs[p].profile),
                            !.pc = "saveRating"])
    /\ UNCHANGED <<users, backend, store, req, res>>

\* updateRating: this.rating = ...; await this.save().  The document is the
\* one loaded before; save() sends the rating when the assignment changed it.
ReviewSave(p) ==
    /\ procs[p].pc = "saveRating"
    /\ LET d == procs[p].profile
           doc == [doctorProfiles[d] EXCEPT !.rating = procs[p].loaded]
           new == updateRating(doc, procs[p].rating, procs[p].read)
       IN
       /\ doctorProfiles' =
              IF new.rating # doc.rating
              THEN [doctorProfiles EXCEPT ![d].rating = new.rating]
              ELSE doctorProfiles
       /\ procs' = setProc(p,
              [procs[p] EXCEPT !.wrote = (new.rating # doc.rating),
                               !.order = nextOrder,
                               !.pc = "done", !.code = "201"])
    /\ UNCHANGED <<users, backend, appointments, notifications, reviews, req, res>>

\* Relational store, READ COMMITTED: the INSERT of a review by caller u as
\* one transaction.  reviews holds the committed rows; the row of a running
\* transaction is in its procs entry until TxCommit.  An insert for an
\* appointment another running transaction has inserted a review for waits
\* for that transaction (unique index).
TxInsertReview(p, u, id, rt) ==
    /\ backend = "sql"
    /\ procs[p].pc = "idle"
    /\ \A q \in Procs \ {p} :
          ~(procs[q].id = id /\ procs[q].pc \in {"snapshot", "update", "commit"})
    /\ LET code == reviewCode(u, id, u, "dp1", rt) IN
       procs' = setProc(p,
           [procs[p] EXCEPT !.op = "insertReview", !.user = u, !.id = id,
                            !.rating = rt, !.profile = "dp1",
                            !.pc = IF code = "ok" THEN "snapshot" ELSE "done",
                            !.code = code])
    /\ UNCHANGED <<users, backend, store, req, res>>

\* The trigger's UPDATE starts: its snapshot holds the committed reviews and
\* the transaction's own row; the subquery reads from it.
TxSnapshot(p) ==
    /\ procs[p].pc = "snapshot"
    /\ procs' = setProc(p,
           [procs[p] EXCEPT
               !.read = reviewsFor(
                            reviews \cup
                                {[appointment_id |-> procs[p].id,
                                  patient_id |-> procs[p].user,
                                  doctor_id |-> procs[p].profile,
                                  rating |-> procs[p].rating]},
                            procs[p].profile),
               !.pc = "update"])
    /\ UNCHANGED <<users, backend, store, req, res>>

\* The trigger's UPDATE writes the doctor_profiles row the policy lets it
\* see, once no other running transaction holds the row's lock, with the
\* average its snapshot gave.  doctorProfiles shows the new row at once;
\* no other transaction reads it before the commit.
TxUpdateRating(p) ==
    /\ procs[p].pc = "update"
    /\ \A q \in Procs \ {p} : ~(procs[q].pc = "commit" /\ procs[q].wrote)
    /\ doctorProfiles' =
           update_doctor_rating(procs[p].user, procs[p].profile, procs[p].read)
    /\ LET touched == doctorProfiles[procs[p].profile].userId = procs[p].user IN
       procs' = setProc(p,
           [procs[p] EXCEPT !.wrote = touched,
                            !.order = IF touched THEN nextOrder ELSE 0,
                            !.pc = "commit"])
    /\ UNCHANGED <<users, backend, appointments, notifications, reviews, req, res>>

TxCommit(p) ==
    /\ procs[p].pc = "commit"
    /\ reviews' = reviews \cup
           {[appointment_id |-> procs[p].id, patient_id |-> procs[p].user,
             doctor_id |-> procs[p].profile, rating |-> procs[p].rating]}
    /\ procs' = setProc(p, [procs[p] EXCEPT !.pc = "done"])
    /\ UNCHANGED <<users, backend, appointments, notifications, doctorProfiles, req, res>>

\* Status updates tried: <<caller, appointment id, status>>.
RacePatchInputs ==
    {<<"p1", 1, "confirmed">>, <<"p1", 1, "completed">>,
     <<"d1", 1, "cancelled">>, <<"d1", 1, "completed">>,
     <<"d2", 1, "confirmed">>, <<"p1", 1, "archived">>,
     <<"p1", MaxReviews + 1, "confirmed">>}

\* Reviews tried: <<caller, appointment id, rating>>.
RaceReviewInputs ==
    {<<"p1", 1, 3>>, <<"p2", 2, 5>>, <<"p1", 3, 5>>, <<"p2", 1, 4>>}

RaceTxInputs ==
    {<<"d1", 2, 3>>, <<"d1", 4, 5>>, <<"d1", 2, 5>>, <<"p1", 1, 4>>,
     <<"p1", 2, 4>>}

InitRace ==
    /\ backend \in {"rest", "sql"}
    /\ appointments = RatingAppointments(backend)
    /\ notifications = RatingNotifications(backend)
    /\ reviews = {}
    /\ doctorProfiles = InitDoctorProfiles
    /\ req = Idle
    /\ res = Response("none", {})
    /\ procs = [p \in Procs |-> IdleProc]
    /\ users = RegisteredUsers

NextRace ==
    \/ \E p \in Procs : \E i \in RacePatchInputs : PatchReceive(p, i[1], i[2], i[3])
    \/ \E p \in Procs : PatchFindById(p)
    \/ \E p \in Procs : PatchFindOne(p)
    \/ \E p \in Procs : PatchSave(p)
    \/ \E p \in Procs : PatchNotify(p)
    \/ \E p \in Procs : PatchNotifyFails(p)
    \/ \E p \in Procs : \E i \in RaceReviewInputs : ReviewCreate(p, i[1], i[2], i[3])
    \/ \E p \in Procs : ReviewFind(p)
    \/ \E p \in Procs : ReviewSave(p)
    \/ \E p \in Procs : \E i \in RaceTxInputs : TxInsertReview(p, i[1], i[2], i[3])
    \/ \E p \in Procs : TxSnapshot(p)
    \/ \E p \in Procs : TxUpdateRating(p)
    \/ \E p \in Procs : TxCommit(p)

SpecRace == InitRace /\ [][NextRace]_vars

-----------------------------------------------------------------------------
(* Accounts: POST /api/auth/register, POST /api/auth/login and GET          *)
(* /api/auth/me, two requests at a time, one action per await.  The users   *)
(* collection starts empty.                                                 *)

respond(proc, code, msg) == [proc EXCEPT !.pc = "done", !.code = code, !.msg = msg]

\* User.findOne({ email }): the _id of the user with that email, 0 for none
findOneByEmail(email) ==
    IF \E i \in DOMAIN users : users[i].email = email
    THEN CHOOSE i \in DOMAIN users : users[i].email = email
    ELSE 0

\* generateToken(user._id): a token signed by the server for that user
generateToken(id) == id

\* user.toSafeObject() / select('-passwordHash')
toSafeObject(user) == [user EXCEPT !.passwordHash = <<>>]

\* user.comparePassword(password)
comparePassword(user, password) == user.passwordHash = hash(password)

\* Variant: the collection has no unique index on email.
createError_noIndex(doc) ==
    IF doc.role \notin {"patient", "doctor", "admin"} THEN "validation"
    ELSE ""

\* User.create(doc) fails: schema validation (role enum), then the unique
\* index on email; "" when the document is stored
createError(doc) ==
    IF doc.role \notin {"patient", "doctor", "admin"} THEN "validation"
    ELSE IF findOneByEmail(doc.email) # 0 THEN "E11000 duplicate key"
    ELSE ""

\* Registrations that have passed the required-fields test and not answered.
registering == {q \in Procs : procs[q].pc \in {"regFindOne", "regCreate"}}

\* POST /api/auth/register arrives: the required-fields test
RegisterReceive(p, email, password, fullName, role) ==
    /\ procs[p].pc = "idle"
    /\ Len(users) + Cardinality(registering) < MaxUsers
    /\ LET proc == [procs[p] EXCEPT !.op = "register", !.email = email,
                                    !.password = password,
                                    !.fullName = fullName, !.role = role]
       IN
       procs' = setProc(p,
           IF email = "" \/ password = "" \/ fullName = "" \/ role = ""
           THEN respond(proc, "400", "Please provide all required fields")
           ELSE [proc EXCEPT !.pc = "regFindOne"])
    /\ UNCHANGED <<backend, store, req, res, users>>

\* Variant: the existing-user test is skipped.
registerFound_skipped(proc) == [proc EXCEPT !.pc = "regCreate"]

\* if (existingUser) return res.status(400)...
registerFound(proc) == respond(proc, "400", "Email already registered")

\* const existingUser = await User.findOne({ email })
RegisterFindOne(p) ==
    /\ procs[p].pc = "regFindOne"
    /\ procs' = setProc(p,
           IF findOneByEmail(procs[p].email) # 0
           THEN registerFound(procs[p])
           ELSE [procs[p] EXCEPT !.pc = "regCreate"])
    /\ UNCHANGED <<backend, store, req, res, users>>

\* await User.create(...); generateToken; res.status(201); a failing create
\* goes to the catch block: 500 with the error's message
RegisterCreate(p) ==
    /\ procs[p].pc = "regCreate"
    /\ LET doc == [email |-> procs[p].email,
                   passwordHash |-> hash(procs[p].password),
                   fullName |-> procs[p].fullName, role |-> procs[p].role]
           err == createError(doc)
       IN
       IF err = ""
       THEN /\ users' = Append(users, doc)
            /\ procs' = setProc(p,
                   [respond(procs[p], "201", "") EXCEPT
                       !.token = generateToken(Len(users) + 1),
                       !.out = toSafeObject(doc)])
       ELSE /\ procs' = setProc(p, respond(procs[p], "500", err))
            /\ UNCHANGED users
    /\ UNCHANGED <<backend, store, req, res>>

\* POST /api/auth/login arrives: the required-fields test
LoginReceive(p, email, password) ==
    /\ procs[p].pc = "idle"
    /\ LET proc == [procs[p] EXCEPT !.op = "login", !.email = email,
                                    !.password = password]
       IN
       procs' = setProc(p,
           IF email = "" \/ password = ""
           THEN respond(proc, "400", "Please provide email and password")
           ELSE [proc EXCEPT !.pc = "loginFindOne"])
    /\ UNCHANGED <<backend, store, req, res, users>>

\* Variant: an unknown email is reported as such.
loginNoUser_notFound(proc) == respond(proc, "404", "User not found")

\* if (!user) return res.status(401)...
loginNoUser(proc) == respond(proc, "401", "Invalid credentials")

\* const user = await User.findOne({ email }).select('+passwordHash')
LoginFindOne(p) ==
    /\ procs[p].pc = "loginFindOne"
    /\ procs' = setProc(p,
           IF findOneByEmail(procs[p].email) = 0
           THEN loginNoUser(procs[p])
           ELSE [procs[p] EXCEPT !.id = findOneByEmail(procs[p].email),
                                 !.pc = "loginCompare"])
    /\ UNCHANGED <<backend, store, req, res, users>>

\* await user.comparePassword(password); 401, or the token and the user
LoginCompare(p) ==
    /\ procs[p].pc = "loginCompare"
    /\ procs' = setProc(p,
           IF ~comparePassword(users[procs[p].id], procs[p].password)
           THEN respond(procs[p], "401", "Invalid credentials")
           ELSE [respond(procs[p], "200", "") EXCEPT
                    !.token = generateToken(procs[p].id),
                    !.out = toSafeObject(users[procs[p].id])])
    /\ UNCHANGED <<backend, store, req, res, users>>

\* GET /api/auth/me arrives: the header test and jsonwebtoken.verify, whose
\* exception the catch block answers with 401 'Invalid token'
MeReceive(p, auth) ==
    /\ procs[p].pc = "idle"
    /\ LET proc == [procs[p] EXCEPT !.op = "me", !.auth = auth] IN
       procs' = setProc(p,
           IF auth.sig = "none" THEN respond(proc, "401", "Not authenticated")
           ELSE IF auth.sig # "good" THEN respond(proc, "401", "Invalid token")
           ELSE [proc EXCEPT !.id = auth.userId, !.pc = "meFindById"])
    /\ UNCHANGED <<backend, store, req, res, users>>

\* await User.findById(decoded.userId).select('-passwordHash')
MeFindById(p) ==
    /\ procs[p].pc = "meFindById"
    /\ procs' = setProc(p,
           IF procs[p].id \notin DOMAIN users
           THEN respond(procs[p], "404", "User not found")
           ELSE [respond(procs[p], "200", "") EXCEPT
                    !.out = toSafeObject(users[procs[p].id])])
    /\ UNCHANGED <<backend, store, req, res, users>>

\* User.findById rejects (the store fails): the catch block answers
MeFindByIdFails(p) ==
    /\ procs[p].pc = "meFindById"
    /\ procs' = setProc(p,
           [respond(procs[p], "401", "Invalid token") EXCEPT !.fault = TRUE])
    /\ UNCHANGED <<backend, store, req, res, users>>

\* The response is out; the connection serves its next request.
AuthDeliver(p) ==
    /\ procs[p].pc = "done"
    /\ procs' = setProc(p, IdleProc)
    /\ UNCHANGED <<backend, store, req, res, users>>

\* Bodies tried: <<email, password, fullName, role>>.
RegisterInputs ==
    {<<"a@x", "pw1", "Ann", "patient">>, <<"b@x", "pw2", "Bob", "doctor">>,
     <<"a@x", "pw2", "Al", "doctor">>, <<"", "pw1", "Ann", "patient">>,
     <<"a@x", "", "Ann", "patient">>, <<"a@x", "pw1", "", "patient">>,
     <<"a@x", "pw1", "Ann", "">>, <<"b@x", "pw1", "Bea", "nurse">>}

\* Credentials tried: <<email, password>>.
LoginInputs ==
    {<<"a@x", "pw1">>, <<"a@x", "pw2">>, <<"b@x", "pw1">>, <<"c@x", "pw1">>,
     <<"", "pw1">>, <<"a@x", "">>}

\* Authorization headers tried: none, a token that does not verify, the
\* token of user 1, and the token of a user that is no longer stored.
TokenInputs ==
    {NoToken, [sig |-> "bad", userId |-> 1], [sig |-> "good", userId |-> 1],
     [sig |-> "good", userId |-> MaxUsers + 1]}

InitAuth ==
    /\ backend = "rest"
    /\ appointments = <<>>
    /\ notifications = <<>>
    /\ reviews = {}
    /\ doctorProfiles = InitDoctorProfiles
    /\ req = Idle
    /\ res = Response("none", {})
    /\ procs = [p \in Procs |-> IdleProc]
    /\ users = <<>>

NextAuth ==
    \/ \E p \in Procs : \E i \in RegisterInputs :
          RegisterReceive(p, i[1], i[2], i[3], i[4])
    \/ \E p \in Procs : RegisterFindOne(p)
    \/ \E p \in Procs : RegisterCreate(p)
    \/ \E p \in Procs : \E i \in LoginInputs : LoginReceive(p, i[1], i[2])
    \/ \E p \in Procs : LoginFindOne(p)
    \/ \E p \in Procs : LoginCompare(p)
    \/ \E p \in Procs : \E t \in TokenInputs : MeReceive(p, t)
    \/ \E p \in Procs : MeFindById(p)
    \/ \E p \in Procs : MeFindByIdFails(p)
    \/ \E p \in Procs : AuthDeliver(p)

SpecAuth == InitAuth /\ [][NextAuth]_vars

-----------------------------------------------------------------------------
(* Claims.  A step with req'.op = "setStatus" is one PATCH                  *)
(* /api/appointments/:id/status request: the unprimed variables are the    *)
(* store before it, req' the request, res' the response.                   *)

\* C1: a status update requesting 'completed' fails and leaves the status
\* unchanged unless the appointment's current status is 'confirmed'; no
\* appointment moves to 'completed' from another status than 'confirmed'.
C1_CompleteOnlyFromConfirmed ==
    [][/\ (/\ req'.op = "setStatus"
           /\ req'.status = "completed"
           /\ req'.id \in DOMAIN appointments
           /\ appointments[req'.id].status # "confirmed")
          => (res'.code # "200" /\ appointments' = appointments)
       /\ backend = "rest" =>
            \A i \in DOMAIN appointments :
                (/\ appointments'[i].status = "completed"
                 /\ appointments[i].status # "completed")
                => appointments[i].status = "confirmed"]_vars

\* C2: a successful status update to 'completed' increments the
\* totalConsultations of the appointment's doctor by exactly one; a
\* successful update to any other status leaves every counter unchanged.
C2_CompletionCountsConsultation ==
    [][(req'.op = "setStatus" /\ res'.code = "200")
       => \A dp \in DOMAIN doctorProfiles :
             doctorProfiles'[dp].totalConsultations =
                 doctorProfiles[dp].totalConsultations
                 + (IF /\ req'.status = "completed"
                       /\ appointments[req'.id].doctorId = dp
                    THEN 1 ELSE 0)]_vars

\* C3: once an appointment's status is outside {pending, confirmed}, no
\* request changes it any more.
C3_TerminalStatusFrozen ==
    [][backend = "rest" =>
         \A i \in DOMAIN appointments :
             ~canBeModified(appointments[i])
             => appointments'[i].status = appointments[i].status]_vars

\* C4: for every current status and every accepted requested status other
\* than 'completed', a status update by a caller who passes the ownership
\* test succeeds and sets the status to the requested one.
C4_AnyTransitionApplied ==
    [][(/\ req'.op = "setStatus"
        /\ req'.status \in {"confirmed", "cancelled", "rescheduled"}
        /\ req'.id \in DOMAIN appointments
        /\ \/ Role(req'.user) # "doctor"
           \/ appointments[req'.id].doctorId \in profilesOf(req'.user))
       => /\ res'.code = "200"
          /\ appointments'[req'.id].status = req'.status]_vars

\* C4 witness: an appointment that had been cancelled was set to confirmed.
C4_Witness ==
    /\ req.op = "setStatus"
    /\ res.code = "200"
    /\ req.status = "confirmed"
    /\ appointments[req.id].status = "confirmed"
    /\ Len(notifications) >= 2
    /\ notifications[Len(notifications) - 1].relatedId = req.id
    /\ notifications[Len(notifications) - 1].status = "cancelled"

\* C5 as stated: each of the five enum values is accepted as requested
\* status, and any other value is rejected with 400 without any change.
C5_FiveValuesAccepted ==
    [][req'.op = "setStatus"
       => IF req'.status \in StatusEnum
          THEN res'.code # "400"
          ELSE res'.code = "400" /\ UNCHANGED store]_vars

\* C5 amended: the four values confirmed, cancelled, completed, rescheduled
\* are accepted as requested status; any other value, 'pending' included,
\* is rejected with 400 whether or not the appointment exists, and nothing
\* is changed and no notification is created.
C5_FourValuesAccepted ==
    [][req'.op = "setStatus"
       => IF req'.status \in {"confirmed", "cancelled", "completed", "rescheduled"}
          THEN res'.code # "400"
          ELSE res'.code = "400" /\ UNCHANGED store]_vars

\* C5 witness: 'pending' was requested for an existing appointment and refused.
C5_Witness ==
    /\ req.op = "setStatus"
    /\ req.status = "pending"
    /\ req.id \in DOMAIN appointments
    /\ appointments[req.id].status = "confirmed"
    /\ res.code = "400"

\* C6: a status update (well-formed, on an existing appointment) by a
\* doctor-role caller whose doctor profile is missing or is not the one the
\* appointment references is answered 403 and changes no appointment, no
\* notification, no review and no doctor profile.
C6_ForeignDoctorForbidden ==
    [][(/\ req'.op = "setStatus"
        /\ Role(req'.user) = "doctor"
        /\ req'.status \in {"confirmed", "cancelled", "completed", "rescheduled"}
        /\ req'.id \in DOMAIN appointments
        /\ \/ profilesOf(req'.user) = {}
           \/ appointments[req'.id].doctorId \notin profilesOf(req'.user))
       => (res'.code = "403" /\ UNCHANGED store)]_vars

\* C6 witness: a doctor who has a profile was refused on an appointment that
\* references another doctor's profile.
C6_Witness ==
    /\ req.op = "setStatus"
    /\ res.code = "403"
    /\ profilesOf(req.user) # {}
    /\ appointments[req.id].doctorId \in DoctorProfileIds \ profilesOf(req.user)

\* C7: a status update (with an accepted status) naming an id that no
\* appointment has is answered 404 and changes nothing: no appointment and
\* no notification is created.
C7_MissingAppointmentNotFound ==
    [][(/\ req'.op = "setStatus"
        /\ req'.status \in {"confirmed", "cancelled", "completed", "rescheduled"}
        /\ req'.id \notin DOMAIN appointments)
       => (res'.code = "404" /\ UNCHANGED store)]_vars

\* C7 witness: a doctor asked for a missing id while appointments exist.
C7_Witness ==
    /\ req.op = "setStatus"
    /\ res.code = "404"
    /\ Role(req.user) = "doctor"
    /\ appointments # <<>>
    /\ req.id \notin DOMAIN appointments

C9_ListingByRole ==
    (req.op \in {"list", "select"} /\ res.code \in {"200", "ok"})
    => \A i \in res.rows :
          /\ Role(req.user) = "patient" => appointments[i].patientId = req.user
          /\ Role(req.user) = "doctor"
             => appointments[i].doctorId \in profilesOf(req.user)

\* C9 amended: a listing never returns to a patient-role or doctor-role
\* caller an appointment in which the caller is neither the patient nor the
\* owner of the referenced doctor profile; the REST listing returns to a
\* patient only appointments whose patient is the caller and to a doctor
\* only appointments that reference the caller's own profile.
C9_ListingOwnOnly ==
    (req.op \in {"list", "select"} /\ res.code \in {"200", "ok"}
     /\ Role(req.user) \in {"patient", "doctor"})
    => \A i \in res.rows :
          /\ \/ appointments[i].patientId = req.user
             \/ appointments[i].doctorId \in profilesOf(req.user)
          /\ req.op = "list" =>
               /\ Role(req.user) = "patient"
                  => appointments[i].patientId = req.user
               /\ Role(req.user) = "doctor"
                  => appointments[i].doctorId \in profilesOf(req.user)

\* C9 witness: a doctor with a profile listed over REST while an appointment
\* of another doctor existed, and did not get it.
C9_Witness ==
    /\ req.op = "list"
    /\ res.code = "200"
    /\ Role(req.user) = "doctor"
    /\ \E i \in DOMAIN appointments :
          /\ i \notin res.rows
          /\ appointments[i].doctorId \in DoctorProfileIds

\* C10: each appointment has at most one review, and every reviewed
\* appointment has status 'completed'.
C10_ReviewOnlyOnCompleted ==
    \A i \in DOMAIN appointments :
        LET rs == {r \in reviews : r.appointment_id = i} IN
        /\ Cardinality(rs) <= 1
        /\ rs # {} => appointments[i].status = "completed"

\* C11: a review submitted for an appointment whose status is not
\* 'completed', or whose patient is not the submitting caller, is rejected
\* and leaves the reviews and every doctor's rating unchanged.
C11_ReviewRejected ==
    [][(/\ req'.op = "insertReview"
        /\ req'.id \in DOMAIN appointments
        /\ \/ appointments[req'.id].status # "completed"
           \/ appointments[req'.id].patientId # req'.user)
       => /\ res'.code # "ok"
          /\ reviews' = reviews
          /\ doctorProfiles' = doctorProfiles]_vars

\* C11 witness: the appointment's own patient submitted an otherwise
\* acceptable review while the appointment was confirmed, and was refused.
C11_Witness ==
    /\ req.op = "insertReview"
    /\ req.id \in DOMAIN appointments
    /\ appointments[req.id].patientId = req.user
    /\ req.patient = req.user
    /\ appointments[req.id].status = "confirmed"
    /\ req.rating = 5
    /\ req.body.doctorId = appointments[req.id].doctorId
    /\ res.code = "rls"
    /\ reviews = {}

\* C12: for every doctor with at least one review, the stored rating is the
\* arithmetic mean of the ratings of the reviews referencing the doctor,
\* rounded to two decimal places, in the relational and in the document
\* store alike.
C12_RatingIsRoundedMean ==
    \A dp \in DOMAIN doctorProfiles :
        reviewsOf(dp) # {}
        => doctorProfiles[dp].rating
               = Decimal2(sumRatings(reviewsOf(dp)), Cardinality(reviewsOf(dp)))

\* C13: once a review-creating request has returned success, the doctor's
\* stored rating is the mean (exact or rounded to two places) of all the
\* reviews then stored for that doctor.
C13_RatingNeverStale ==
    [][(/\ req'.op \in {"createReview", "insertReview"}
        /\ res'.code \in {"201", "ok"})
       => \A dp \in DOMAIN doctorProfiles :
             LET rs == reviewsFor(reviews', dp) IN
             rs # reviewsOf(dp)
             => doctorProfiles'[dp].rating
                    \in {Rat(sumRatings(rs), Cardinality(rs)),
                         Decimal2(sumRatings(rs), Cardinality(rs))}]_vars

\* C14: updateRating(newRating) on a profile with no stored review sets the
\* profile's rating to newRating.
C14_FirstRatingIsNewRating ==
    [][(/\ req'.op = "updateRating"
        /\ reviewsOf(req'.body.doctorId) = {})
       => doctorProfiles'[req'.body.doctorId].rating = Rat(req'.rating, 1)]_vars

\* C14 witness: updateRating(5) has run on dp2, which has no review, after
\* an earlier call had left another rating there.
C14_Witness ==
    /\ req.op = "updateRating"
    /\ req.body.doctorId = "dp2"
    /\ req.rating = 5
    /\ reviewsOf("dp2") = {}
    /\ doctorProfiles["dp2"].rating = Rat(5, 1)
    /\ doctorProfiles["dp1"].rating = Rat(3, 1)
    /\ reviewsOf("dp1") = {}

\* C17: every successful status update appends exactly one notification:
\* to the appointment's patient, of type 'appointment', related to the
\* appointment and naming the new status; no other step adds or removes a
\* status notification.  Hence the status notifications of an appointment
\* are as many as the successful status updates on it.
C17_OneNotificationPerUpdate ==
    [][IF req'.op = "setStatus" /\ res'.code = "200"
       THEN /\ Len(notifications') = Len(notifications) + 1
            /\ SubSeq(notifications', 1, Len(notifications)) = notifications
            /\ LET n == notifications'[Len(notifications')] IN
               /\ n.userId = appointments[req'.id].patientId
               /\ n.type = "appointment"
               /\ n.relatedId = req'.id
               /\ n.status = req'.status
               /\ n.title = "Appointment Status Updated"
       ELSE LET isStatus(n) == n.title = "Appointment Status Updated" IN
            SelectSeq(notifications', isStatus) = SelectSeq(notifications, isStatus)]_vars

\* C17 witness: appointment 1 has been set to 'confirmed' twice with
\* success, and carries two notifications naming 'confirmed'.
C17_Witness ==
    /\ req.op = "setStatus"
    /\ res.code = "200"
    /\ req.id = 1
    /\ Len(notifications) = 3
    /\ \A k \in {2, 3} :
          /\ notifications[k].title = "Appointment Status Updated"
          /\ notifications[k].status = "confirmed"
          /\ notifications[k].relatedId = 1
          /\ notifications[k].userId = appointments[1].patientId

\* C18: POST /api/appointments succeeds only for a caller of role patient;
\* the appointment created has the caller as patient and status 'pending';
\* each successful creation adds one notification, to the user of the
\* doctor profile the appointment references.
C18_CreateByPatientNotifiesDoctor ==
    [][(req'.op = "create" /\ res'.code = "201")
       => /\ Role(req'.user) = "patient"
          /\ Len(appointments') = Len(appointments) + 1
          /\ appointments'[Len(appointments')].patientId = req'.user
          /\ appointments'[Len(appointments')].status = "pending"
          /\ Len(notifications') = Len(notifications) + 1
          /\ \E dp \in DOMAIN doctorProfiles :
                /\ dp = appointments'[Len(appointments')].doctorId
                /\ notifications'[Len(notifications')].userId
                       = doctorProfiles[dp].userId]_vars

\* C19: on a confirmed appointment, a completion request by a patient is
\* rejected and leaves the status confirmed; a completion request by the
\* appointment's doctor succeeds, sets the status to completed, adds one to
\* the doctor's totalConsultations and adds a notification to the patient.
C19_ConfirmThenCompleteScenario ==
    [][(/\ req'.op = "setStatus"
        /\ req'.status = "completed"
        /\ req'.id \in DOMAIN appointments
        /\ appointments[req'.id].status = "confirmed")
       => LET appt == appointments[req'.id] IN
          /\ Role(req'.user) = "patient"
             => /\ res'.code # "200"
                /\ appointments'[req'.id].status = "confirmed"
          /\ (Role(req'.user) = "doctor" /\ appt.doctorId \in profilesOf(req'.user))
             => /\ res'.code = "200"
                /\ appointments'[req'.id].status = "completed"
                /\ doctorProfiles'[appt.doctorId].totalConsultations
                       = doctorProfiles[appt.doctorId].totalConsultations + 1
                /\ Len(notifications') = Len(notifications) + 1
                /\ notifications'[Len(notifications')].userId = appt.patientId]_vars

\* C15: when the two concurrent requests have finished, the rating of the
\* doctor is the mean of the review set read by the recomputation that
\* saved last (the exact mean in the document store, the rounded mean in
\* the relational store), whether or not that set held every review.
C15_RatingFromLastRead ==
    Finished =>
        \A p \in Procs :
            (/\ procs[p].op \in {"createReview", "insertReview"}
             /\ procs[p].order > 0
             /\ \A q \in Procs :
                   procs[q].op = procs[p].op => procs[q].order <= procs[p].order)
            => LET rs == procs[p].read IN
               doctorProfiles[procs[p].profile].rating =
                   IF backend = "rest"
                   THEN Rat(sumRatings(rs), Cardinality(rs))
                   ELSE Decimal2(sumRatings(rs), Cardinality(rs))

\* C15 witness: two reviews (ratings 3 and 5) for doctor dp1 were submitted
\* concurrently and both are stored; the recomputation that saved last had
\* read a set without the other review, and the stored rating is not the
\* mean of the two.
C15_Witness ==
    /\ Finished
    /\ \A p \in Procs : procs[p].op = "createReview" /\ procs[p].code = "201"
    /\ Cardinality(reviewsOf("dp1")) = 2
    /\ \E p \in Procs :
          /\ procs[p].order = 2
          /\ procs[p].read # reviewsOf("dp1")
          /\ Cardinality(procs[p].read) = 1
    /\ doctorProfiles["dp1"].rating # Rat(sumRatings(reviewsOf("dp1")), 2)

\* C16 (as stated): when two concurrent status updates of one appointment
\* both pass their checks, both succeed and the final status is the one
\* requested by the request that saved last.
C16_LastSaveWins ==
    (/\ Finished
     /\ \A p \in Procs :
           /\ procs[p].op = "setStatus"
           /\ procs[p].id = 1
           /\ procs[p].order > 0
           /\ procs[p].code # "500")
    => /\ \A p \in Procs : procs[p].code = "200"
       /\ \A p \in Procs :
             procs[p].order = 2 => appointments[1].status = procs[p].status

\* C16 (amended): when two concurrent status updates of one appointment
\* both pass their checks, both succeed, no save is refused, and the final
\* status is the one requested by the last request whose save sent an
\* update; a request for the status it loaded sends none.
C16_LastWriteWins ==
    (/\ Finished
     /\ \A p \in Procs :
           /\ procs[p].op = "setStatus"
           /\ procs[p].id = 1
           /\ procs[p].order > 0
           /\ procs[p].code # "500")
    => /\ \A p \in Procs : procs[p].code = "200"
       /\ \A p \in Procs :
             (/\ procs[p].wrote
              /\ \A q \in Procs : procs[q].wrote => procs[q].order <= procs[p].order)
             => appointments[1].status = procs[p].status
       /\ (\A p \in Procs : ~procs[p].wrote)
             => \A p \in Procs : appointments[1].status = procs[p].status

\* C16 witness: both requests loaded the appointment before either saved,
\* both sent an update and answered 200; the status stored is the one of
\* the second save and not the one of the first.
C16_Witness ==
    /\ Finished
    /\ \A p \in Procs :
          /\ procs[p].op = "setStatus"
          /\ procs[p].id = 1
          /\ procs[p].code = "200"
          /\ procs[p].wrote
    /\ \E p, q \in Procs :
          /\ procs[p].order = 1
          /\ procs[q].order = 2
          /\ procs[p].status # procs[q].status
          /\ appointments[1].status = procs[q].status

\* C20: when the notification write of a status update fails after the
\* status was saved, the caller gets 500, the step undoes nothing, and the
\* status the request wrote is still the stored one unless a later save
\* replaced it.
C20_NoRollbackOnNotificationFailure ==
    [][\A p \in Procs :
          (/\ procs[p].pc = "notify"
           /\ procs'[p].pc = "done"
           /\ notifications' = notifications)
          => /\ procs'[p].code = "500"
             /\ appointments' = appointments
             /\ (/\ procs[p].wrote
                 /\ \A q \in Procs : procs[q].order <= procs[p].order)
                => appointments'[procs[p].id].status = procs[p].status]_vars

\* C20 witness: d1 asked for 'cancelled' on the completed appointment 1, the
\* notification write failed, the answer is 500 and the stored status is
\* 'cancelled'; no notification names 'cancelled'.
C20_Witness ==
    /\ \E p \in Procs :
          /\ procs[p].op = "setStatus"
          /\ procs[p].pc = "done"
          /\ procs[p].code = "500"
          /\ procs[p].status = "cancelled"
          /\ procs[p].id = 1
    /\ appointments[1].status = "cancelled"
    /\ \A k \in DOMAIN notifications : notifications[k].status # "cancelled"

\* C25: once every in-flight status update has finished, the newest status
\* notification of each appointment names the appointment's stored status,
\* whatever the interleaving of the updates.
C25_LatestNotificationNamesStatus ==
    Finished =>
        \A id \in DOMAIN appointments :
            LET ks == {k \in DOMAIN notifications :
                          /\ notifications[k].title = "Appointment Status Updated"
                          /\ notifications[k].relatedId = id}
            IN
            ks # {} =>
                \E k \in ks :
                    /\ \A j \in ks : j <= k
                    /\ notifications[k].status = appointments[id].status

\* C26: in every reachable state each doctor's totalConsultations is the
\* number of the doctor's appointments that are completed.
C26_ConsultationsCountCompleted ==
    \A dp \in DOMAIN doctorProfiles :
        doctorProfiles[dp].totalConsultations =
            Cardinality({i \in DOMAIN appointments :
                            /\ appointments[i].doctorId = dp
                            /\ appointments[i].status = "completed"})

\* C27: every stored review references the doctor of the appointment it
\* reviews.
C27_ReviewDoctorIsAppointmentDoctor ==
    \A r \in reviews :
        /\ r.appointment_id \in DOMAIN appointments
        /\ r.doctor_id = appointments[r.appointment_id].doctorId

\* C29: every stored appointment references an existing doctor profile.
C29_AppointmentDoctorExists ==
    \A i \in DOMAIN appointments :
        appointments[i].doctorId \in DOMAIN doctorProfiles

\* C23: no statement run by a caller who is not an admin (the owning doctor's
\* insert or update of their own row included) produces a doctor profile
\* with is_verified = true.
C23_VerifiedOnlyByAdmin ==
    [][(/\ req'.op \in {"insertDoctorProfile", "updateDoctorProfile"}
        /\ Role(req'.user) # "admin")
       => \A dp \in DOMAIN doctorProfiles' :
             doctorProfiles'[dp].isVerified
             => /\ dp \in DOMAIN doctorProfiles
                /\ doctorProfiles[dp].isVerified]_vars

\* C21: a request with missing or malformed fields is answered 400 and
\* stores nothing: an appointment creation without doctorId,
\* appointmentDate or reason or with an appointmentTime not in HH:mm form,
\* a register without email, password, fullName or role, a login without
\* email or password.
C21_ValidationErrorsAre400 ==
    /\ [][(/\ req'.op = "create"
           /\ authorize("patient", req'.user)
           /\ ~validAppointment(req'.body))
          => (res'.code = "400" /\ UNCHANGED store)]_vars
    /\ [][\A p \in Procs :
             (/\ procs[p].pc = "idle"
              /\ \/ /\ procs'[p].op = "register"
                    /\ "" \in {procs'[p].email, procs'[p].password,
                               procs'[p].fullName, procs'[p].role}
                 \/ /\ procs'[p].op = "login"
                    /\ "" \in {procs'[p].email, procs'[p].password})
             => (procs'[p].code = "400" /\ users' = users)]_vars

\* C22: a registration whose email belongs to a stored user is answered 400
\* 'Email already registered'; it stores no user, issues no token and
\* leaves the stored users as they are.
C22_DuplicateEmailRejected ==
    [][\A p \in Procs :
          (/\ procs[p].pc = "regFindOne"
           /\ procs'[p].pc # "regFindOne"
           /\ \E i \in DOMAIN users : users[i].email = procs[p].email)
          => /\ procs'[p].pc = "done"
             /\ procs'[p].code = "400"
             /\ procs'[p].msg = "Email already registered"
             /\ procs'[p].token = 0
             /\ users' = users]_vars

\* C22 witness: a@x is registered (password pw1); a second registration of
\* a@x with another password and name has been answered 400, and the stored
\* user is the first one.
C22_Witness ==
    /\ Len(users) = 1
    /\ users[1] = [email |-> "a@x", passwordHash |-> hash("pw1"),
                   fullName |-> "Ann", role |-> "patient"]
    /\ \E p \in Procs :
          /\ procs[p].op = "register"
          /\ procs[p].email = "a@x"
          /\ procs[p].password = "pw2"
          /\ procs[p].pc = "done"
          /\ procs[p].code = "400"
          /\ procs[p].msg = "Email already registered"
          /\ procs[p].token = 0

\* C24: GET /api/auth/me answers 401 for a missing or invalid token, 404
\* when the token's user is not stored, 200 with the caller's own profile
\* without the password hash otherwise; a failure of the store while the
\* user is loaded is answered 500.
C24_MeResponses ==
    [][\A p \in Procs :
          (/\ procs'[p].op = "me"
           /\ procs[p].pc # "done"
           /\ procs'[p].pc = "done")
          => LET a == procs'[p].auth IN
             IF procs'[p].fault THEN procs'[p].code = "500"
             ELSE IF a.sig # "good" THEN procs'[p].code = "401"
             ELSE IF a.userId \notin DOMAIN users THEN procs'[p].code = "404"
             ELSE /\ procs'[p].code = "200"
                  /\ procs'[p].out.email = users[a.userId].email
                  /\ procs'[p].out.fullName = users[a.userId].fullName
                  /\ procs'[p].out.role = users[a.userId].role
                  /\ procs'[p].out.passwordHash = <<>>]_vars

\* C28: no two stored users have the same email, and of two concurrent
\* registrations of the same email at most one is answered 201.
C28_EmailsUnique ==
    /\ \A i, j \in DOMAIN users : users[i].email = users[j].email => i = j
    /\ \A p, q \in Procs :
          (/\ p # q
           /\ procs[p].op = "register" /\ procs[q].op = "register"
           /\ procs[p].email = procs[q].email
           /\ procs[p].code = "201")
          => procs[q].code # "201"

\* C28 witness: two registrations of the unused a@x ran concurrently, both
\* found no existing user; one created the user and got 201 with a token,
\* the other's create was refused and it has no token.
C28_Witness ==
    /\ Len(users) = 1
    /\ users[1].email = "a@x"
    /\ \E p, q \in Procs :
          /\ procs[p].op = "register" /\ procs[q].op = "register"
          /\ procs[p].email = "a@x" /\ procs[q].email = "a@x"
          /\ procs[p].pc = "done" /\ procs[q].pc = "done"
          /\ procs[p].code = "201" /\ procs[p].token = 1
          /\ procs[q].code = "500" /\ procs[q].token = 0
          /\ procs[q].msg = "E11000 duplicate key"

\* C30: a login with an email that is not registered and a login with a
\* registered email and a wrong password get the same response: 401,
\* 'Invalid credentials', no token, no user; neither changes stored state.
C30_LoginFailuresAlike ==
    [][\A p \in Procs :
          (/\ procs[p].op = "login"
           /\ procs[p].pc # "done"
           /\ procs'[p].pc = "done"
           /\ \/ ~\E i \in DOMAIN users : users[i].email = procs[p].email
              \/ \E i \in DOMAIN users :
                    /\ users[i].email = procs[p].email
                    /\ users[i].passwordHash # hash(procs[p].password))
          => /\ procs'[p].code = "401"
             /\ procs'[p].msg = "Invalid credentials"
             /\ procs'[p].token = 0
             /\ procs'[p].out = NoUser
             /\ users' = users
             /\ UNCHANGED store]_vars

\* C30 witness: a@x is registered with password pw1; a login with a@x and
\* pw2 and a login with the unregistered c@x have both been answered, with
\* the same response.
C30_Witness ==
    /\ \E i \in DOMAIN users :
          users[i].email = "a@x" /\ users[i].passwordHash = hash("pw1")
    /\ \E p, q \in Procs :
          /\ procs[p].op = "login" /\ procs[q].op = "login"
          /\ procs[p].email = "a@x" /\ procs[p].password = "pw2"
          /\ procs[q].email = "c@x"
          /\ procs[p].pc = "done" /\ procs[q].pc = "done"
          /\ procs[p].code = "401" /\ procs[q].code = "401"
          /\ procs[p].msg = procs[q].msg
          /\ procs[p].token = procs[q].token
          /\ procs[p].out = procs[q].out

====
